---- MODULE Spec2Model ----
(***************************************************************************)
(* Model of kafka_rust_chat_backend/src/main.rs: a WebSocket chat relay.   *)
(* Each relay instance owns a Dedup Ledger (seen_messages), a Fan-Out Hub  *)
(* (tokio broadcast channel), one Topic Bridge task (Kafka consumer loop)  *)
(* and, per client connection, a Session made of a send_task (Hub ->       *)
(* client) and a recv_task (client -> enrich -> Ledger -> topic -> Hub).   *)
(* All instances share one Kafka topic.                                    *)
(*                                                                         *)
(* JSON text is modelled as [kind, pairs]: kind "bad" does not parse,      *)
(* "num" stands for every well-formed value that is neither an object nor  *)
(* null (number, string, array, bool), "null" is null and "obj" an object  *)
(* written as the sequence of its <<key, value>> members (duplicates and   *)
(* any order allowed).  Member values are naturals: 0 stands for a JSON    *)
(* value that is not a string, every positive number for a distinct        *)
(* string.  Minted UUIDs are 1..MaxMsgs.                                   *)
(***************************************************************************)
EXTENDS Integers, Sequences, FiniteSets, TLC

\* ---------------------------------------------------------------- bounds
MaxMsgs == 1       \* client frames accepted (ids minted) in one run
MaxErrs == 1       \* receive errors the consumer stream yields in one run
MaxForeign == 1    \* records written to the topic by other producers
HubCapacity == 1   \* backlog of the broadcast channel, scaled down from 100

Instances == {1, 2}
Local == {1}       \* the instance the single-relay specification runs
Sessions == {1, 2}

\* Readings of Utc::now().
Times == {21}

\* Field names in the order serde_json's map serialises them.
KeyOrder == <<"id", "text", "timestamp">>

VARIABLES
    topic,    \* the shared Kafka topic "chat-room": sequence of record texts
    foreign,  \* number of records other producers have written
    nextId,   \* number of UUIDs minted so far
    seen,     \* seen[i]: the Dedup Ledger of instance i
    lock,     \* lock[i]: holder of the Ledger mutex, "free" or "bridge"
    hub,      \* hub[i]: every text sent on the broadcast channel, in order
    bpc,      \* bpc[i]: position of the Topic Bridge task
    brec,     \* brec[i]: the record text the Bridge is processing
    cursor,   \* cursor[i]: topic offset the consumer has reached
    sess,     \* sess[s]: "none" before the client connects, then "open"
    inst,     \* inst[s]: the instance session s connected to
    conn,     \* conn[s]: the transport to the client is up
    rpc,      \* rpc[s]: position of recv_task
    cur,      \* cur[s]: [id, payload] recv_task is processing
    spc,      \* spc[s]: position of send_task
    smsg,     \* smsg[s]: the text send_task is about to write
    sub,      \* sub[s]: length of hub[inst[s]] when s subscribed
    next,     \* next[s]: the receiver's position in hub[inst[s]]
    out,      \* out[s]: texts written to the client, in order
    orig,     \* history: orig[id] = the parsed frame the id was minted for
    errs      \* history: number of receive errors the consumer stream yielded

vars == <<topic, foreign, nextId, seen, lock, hub, bpc, brec, cursor, sess,
          inst, conn, rpc, cur, spc, smsg, sub, next, out, orig, errs>>

bridgeVars == <<bpc, brec, cursor>>
sendVars == <<spc, smsg, sub, next, out>>
histVars == <<orig, errs>>

\* ------------------------------------------------------------ JSON model
NoText == [kind |-> "bad", pairs |-> <<>>]

Obj(pairs) == [kind |-> "obj", pairs |-> pairs]

Keys(pairs) == {pairs[n][1] : n \in 1..Len(pairs)}

\* The last member with key k (serde_json keeps the last duplicate).
LastOf(pairs, k) ==
    LET at == {n \in 1..Len(pairs) : pairs[n][1] = k}
        n == CHOOSE m \in at : \A o \in at : o <= m
    IN pairs[n][2]

\* serde_json::from_str::<Value>: the parsed value [kind, map]; only called
\* on texts that parse.
from_str(text) ==
    [kind |-> text.kind,
     map |-> [k \in Keys(text.pairs) |-> LastOf(text.pairs, k)]]

Parses(text) == text.kind # "bad"

\* serde_json::to_string of an object value: members in key order.
to_string(value) ==
    LET ks == SelectSeq(KeyOrder, LAMBDA k : k \in DOMAIN value.map)
    IN Obj([n \in 1..Len(ks) |-> <<ks[n], value.map[ks[n]]>>])

\* value[k] = v (IndexMut<&str>): an object gets the member set, null is
\* turned into an object first; any other value panics.
CanIndexMut(value) == value.kind \in {"obj", "null"}

IndexSet(value, k, v) ==
    [kind |-> "obj",
     map |-> [x \in DOMAIN value.map \cup {k} |->
                 IF x = k THEN v ELSE value.map[x]]]

IsStr(v) == v > 0

\* value["id"].as_str() on a record text: 0 when the text does not parse, is
\* no object, has no id member or the member is not a string.
IdOf(text) ==
    IF Parses(text) /\ text.kind = "obj" /\ "id" \in Keys(text.pairs)
       /\ IsStr(LastOf(text.pairs, "id"))
    THEN LastOf(text.pairs, "id")
    ELSE 0

\* Mutant of Enrich: an id the client supplied is kept.
EnrichKeepId(value, id, now) ==
    IF "id" \in DOMAIN value.map
    THEN IndexSet(value, "timestamp", now)
    ELSE IndexSet(IndexSet(value, "id", id), "timestamp", now)

\* Lines 152-155: the enriched value of an accepted frame.
Enrich(value, id, now) ==
    IndexSet(IndexSet(value, "id", id), "timestamp", now)

\* ---------------------------------------------------------------- inputs
\* WebSocket frames a client can send: a non-text frame (binary, ping,
\* pong, close) or a text frame with one of these texts.
ClientTexts ==
    { NoText,
      [kind |-> "num", pairs |-> <<>>],
      [kind |-> "null", pairs |-> <<>>],
      Obj(<<<<"timestamp", 32>>, <<"text", 30>>, <<"id", 33>>, <<"text", 31>>>>) }

Frames == [type : {"text"}, text : ClientTexts]
          \cup {[type |-> "binary", text |-> NoText]}

\* Records other producers of the topic can write.
ForeignTexts ==
    { NoText,
      Obj(<<<<"id", 0>>, <<"timestamp", 22>>>>),
      Obj(<<<<"id", 41>>, <<"text", 31>>>>) }

NoCur == [id |-> 0, payload |-> NoText]

\* ------------------------------------------------------------------ Init
Init ==
    /\ topic = <<>>
    /\ foreign = 0
    /\ nextId = 0
    /\ seen = [i \in Instances |-> {}]
    /\ lock = [i \in Instances |-> "free"]
    /\ hub = [i \in Instances |-> <<>>]
    /\ bpc = [i \in Instances |-> "recv"]
    /\ brec = [i \in Instances |-> NoText]
    /\ cursor = [i \in Instances |-> 0]
    /\ sess = [s \in Sessions |-> "none"]
    /\ inst = [s \in Sessions |-> 1]
    /\ conn = [s \in Sessions |-> FALSE]
    /\ rpc = [s \in Sessions |-> "none"]
    /\ cur = [s \in Sessions |-> NoCur]
    /\ spc = [s \in Sessions |-> "none"]
    /\ smsg = [s \in Sessions |-> NoText]
    /\ sub = [s \in Sessions |-> 0]
    /\ next = [s \in Sessions |-> 0]
    /\ out = [s \in Sessions |-> <<>>]
    /\ orig = <<>>
    /\ errs = 0

\* ------------------------------------------------------- Topic Bridge task
\* Mutant of BridgeRecv: the instances share one consumer group, so a
\* record taken by one instance is not delivered to the others.
BridgeRecvSharedGroup(i, k) ==
    /\ bpc[i] = "recv"
    /\ k \in 1..Len(topic)
    /\ k <= cursor[i] + 1
    /\ cursor' = [j \in Instances |-> IF k > cursor[j] THEN k ELSE cursor[j]]
    /\ IF IdOf(topic[k]) # 0
       THEN /\ bpc' = [bpc EXCEPT ![i] = "lock"]
            /\ brec' = [brec EXCEPT ![i] = topic[k]]
       ELSE UNCHANGED <<bpc, brec>>
    /\ UNCHANGED <<topic, foreign, nextId, seen, lock, hub, sess, inst, conn,
                   rpc, cur, sendVars, histVars>>

\* stream.next() yields record k of the topic: the next one, or an earlier
\* one again (the broker delivers at least once).  Lines 66-70: a record
\* without a string id is dropped.
BridgeRecv(i, k) ==
    /\ bpc[i] = "recv"
    /\ k \in 1..Len(topic)
    /\ k <= cursor[i] + 1
    /\ cursor' = [cursor EXCEPT ![i] = IF k > @ THEN k ELSE @]
    /\ IF IdOf(topic[k]) # 0
       THEN /\ bpc' = [bpc EXCEPT ![i] = "lock"]
            /\ brec' = [brec EXCEPT ![i] = topic[k]]
       ELSE UNCHANGED <<bpc, brec>>
    /\ UNCHANGED <<topic, foreign, nextId, seen, lock, hub, sess, inst, conn,
                   rpc, cur, sendVars, histVars>>

\* Mutant of BridgeError: a receive error ends the loop, as a
\* `while let Some(Ok(msg))` would.
BridgeErrorEndsLoop(i) ==
    /\ bpc[i] = "recv"
    /\ errs < MaxErrs
    /\ errs' = errs + 1
    /\ bpc' = [bpc EXCEPT ![i] = "done"]
    /\ UNCHANGED <<topic, foreign, nextId, seen, lock, hub, brec, cursor, sess,
                   inst, conn, rpc, cur, sendVars, orig>>

\* Lines 66-67: stream.next() yields Some(Err(_)); `if let Ok(msg)` does not
\* match and the loop takes the next item.
BridgeError(i) ==
    /\ bpc[i] = "recv"
    /\ errs < MaxErrs
    /\ errs' = errs + 1
    /\ UNCHANGED <<topic, foreign, nextId, seen, lock, hub, bridgeVars, sess,
                   inst, conn, rpc, cur, sendVars, orig>>

\* Mutant of BridgeCheck: the membership test is missing.
BridgeCheckNoTest(i) ==
    /\ bpc[i] = "lock"
    /\ lock[i] = "free"
    /\ seen' = [seen EXCEPT ![i] = @ \cup {IdOf(brec[i])}]
    /\ lock' = [lock EXCEPT ![i] = "bridge"]
    /\ bpc' = [bpc EXCEPT ![i] = "send"]
    /\ UNCHANGED <<topic, foreign, nextId, hub, brec, cursor, sess, inst,
                   conn, rpc, cur, sendVars, histVars>>

\* Mutant of BridgeCheck: an unseen record is forwarded without its id
\* being inserted.
BridgeCheckNoInsert(i) ==
    /\ bpc[i] = "lock"
    /\ lock[i] = "free"
    /\ IF IdOf(brec[i]) \in seen[i]
       THEN /\ bpc' = [bpc EXCEPT ![i] = "recv"]
            /\ brec' = [brec EXCEPT ![i] = NoText]
            /\ UNCHANGED lock
       ELSE /\ lock' = [lock EXCEPT ![i] = "bridge"]
            /\ bpc' = [bpc EXCEPT ![i] = "send"]
            /\ UNCHANGED brec
    /\ UNCHANGED <<topic, foreign, nextId, seen, hub, cursor, sess, inst, conn,
                   rpc, cur, sendVars, histVars>>

\* Lines 72-74: take the Ledger lock, test and insert under it.  A seen id
\* drops the record and the guard is released at the end of the block.
BridgeCheck(i) ==
    /\ bpc[i] = "lock"
    /\ lock[i] = "free"
    /\ IF IdOf(brec[i]) \in seen[i]
       THEN /\ bpc' = [bpc EXCEPT ![i] = "recv"]
            /\ brec' = [brec EXCEPT ![i] = NoText]
            /\ UNCHANGED <<seen, lock>>
       ELSE /\ seen' = [seen EXCEPT ![i] = @ \cup {IdOf(brec[i])}]
            /\ lock' = [lock EXCEPT ![i] = "bridge"]
            /\ bpc' = [bpc EXCEPT ![i] = "send"]
            /\ UNCHANGED brec
    /\ UNCHANGED <<topic, foreign, nextId, hub, cursor, sess, inst, conn,
                   rpc, cur, sendVars, histVars>>

\* Mutant of BridgeSend: the Bridge also publishes what it forwards.
BridgeSendRepublish(i) ==
    /\ bpc[i] = "send"
    /\ hub' = [hub EXCEPT ![i] = Append(@, brec[i])]
    /\ topic' = Append(topic, brec[i])
    /\ lock' = [lock EXCEPT ![i] = "free"]
    /\ bpc' = [bpc EXCEPT ![i] = "recv"]
    /\ brec' = [brec EXCEPT ![i] = NoText]
    /\ UNCHANGED <<foreign, nextId, seen, cursor, sess, inst, conn,
                   rpc, cur, sendVars, histVars>>

\* Mutant of BridgeSend: the guard outlives the block and is still held
\* when the loop awaits the next record.
BridgeSendKeepGuard(i) ==
    /\ bpc[i] = "send"
    /\ hub' = [hub EXCEPT ![i] = Append(@, brec[i])]
    /\ bpc' = [bpc EXCEPT ![i] = "recv"]
    /\ brec' = [brec EXCEPT ![i] = NoText]
    /\ UNCHANGED <<topic, foreign, nextId, seen, lock, cursor, sess, inst, conn,
                   rpc, cur, sendVars, histVars>>

\* Lines 76-78: send the raw text on the Hub, then drop the guard.
BridgeSend(i) ==
    /\ bpc[i] = "send"
    /\ hub' = [hub EXCEPT ![i] = Append(@, brec[i])]
    /\ lock' = [lock EXCEPT ![i] = "free"]
    /\ bpc' = [bpc EXCEPT ![i] = "recv"]
    /\ brec' = [brec EXCEPT ![i] = NoText]
    /\ UNCHANGED <<topic, foreign, nextId, seen, cursor, sess, inst, conn,
                   rpc, cur, sendVars, histVars>>

\* Another producer writes a record to the shared topic.
ForeignPublish(text) ==
    /\ foreign < MaxForeign
    /\ foreign' = foreign + 1
    /\ topic' = Append(topic, text)
    /\ UNCHANGED <<nextId, seen, lock, hub, bridgeVars, sess, inst, conn,
                   rpc, cur, sendVars, histVars>>

\* Mutant of Connect: the new receiver starts at the oldest text of the
\* backlog instead of at the moment of subscription.
ConnectReplay(s, i) ==
    /\ sess[s] = "none"
    /\ sess' = [sess EXCEPT ![s] = "open"]
    /\ inst' = [inst EXCEPT ![s] = i]
    /\ conn' = [conn EXCEPT ![s] = TRUE]
    /\ sub' = [sub EXCEPT ![s] = Len(hub[i])]
    /\ next' = [next EXCEPT ![s] = 0]
    /\ rpc' = [rpc EXCEPT ![s] = "recv"]
    /\ spc' = [spc EXCEPT ![s] = "recv"]
    /\ UNCHANGED <<topic, foreign, nextId, seen, lock, hub, bridgeVars, cur,
                   smsg, out, histVars>>

\* ---------------------------------------------------------------- Session
\* Lines 126, 136-149: a client connects to instance i; handle_socket
\* subscribes to the Hub and spawns both tasks.
Connect(s, i) ==
    /\ sess[s] = "none"
    /\ sess' = [sess EXCEPT ![s] = "open"]
    /\ inst' = [inst EXCEPT ![s] = i]
    /\ conn' = [conn EXCEPT ![s] = TRUE]
    /\ sub' = [sub EXCEPT ![s] = Len(hub[i])]
    /\ next' = [next EXCEPT ![s] = Len(hub[i])]
    /\ rpc' = [rpc EXCEPT ![s] = "recv"]
    /\ spc' = [spc EXCEPT ![s] = "recv"]
    /\ UNCHANGED <<topic, foreign, nextId, seen, lock, hub, bridgeVars, cur,
                   smsg, out, histVars>>

\* The client goes away or the transport breaks.
Disconnect(s) ==
    /\ sess[s] # "none"
    /\ conn[s]
    /\ conn' = [conn EXCEPT ![s] = FALSE]
    /\ UNCHANGED <<topic, foreign, nextId, seen, lock, hub, bridgeVars, sess,
                   inst, rpc, cur, sendVars, histVars>>

\* Line 150 with the transport down: receiver.next() is None or an error.
RecvEnd(s) ==
    /\ rpc[s] = "recv"
    /\ ~conn[s]
    /\ rpc' = [rpc EXCEPT ![s] = "done"]
    /\ UNCHANGED <<topic, foreign, nextId, seen, lock, hub, bridgeVars, sess,
                   inst, conn, cur, sendVars, histVars>>

\* Lines 150-155: one frame from the client.
RecvFrame(s, f, now) ==
    /\ rpc[s] = "recv"
    /\ conn[s]
    /\ IF f.type # "text"
       THEN \* the while-let pattern does not match: the loop ends
            /\ rpc' = [rpc EXCEPT ![s] = "done"]
            /\ UNCHANGED <<nextId, cur, orig>>
       ELSE IF ~Parses(f.text)
       THEN \* line 151: dropped, next iteration
            UNCHANGED <<rpc, nextId, cur, orig>>
       ELSE IF ~CanIndexMut(from_str(f.text))
       THEN \* line 153 panics: the task ends
            /\ rpc' = [rpc EXCEPT ![s] = "panicked"]
            /\ UNCHANGED <<nextId, cur, orig>>
       ELSE /\ nextId < MaxMsgs
            /\ nextId' = nextId + 1
            /\ cur' = [cur EXCEPT ![s] =
                   [id |-> nextId',
                    payload |-> to_string(Enrich(from_str(f.text), nextId', now))]]
            /\ orig' = Append(orig, from_str(f.text))
            /\ rpc' = [rpc EXCEPT ![s] = "mark"]
    /\ UNCHANGED <<topic, foreign, seen, lock, hub, bridgeVars, sess, inst,
                   conn, sendVars, errs>>

\* Mutant of MarkSeen: the id is not inserted before the publish.
MarkSeenNoInsert(s) ==
    /\ rpc[s] = "mark"
    /\ lock[inst[s]] = "free"
    /\ rpc' = [rpc EXCEPT ![s] = "publish"]
    /\ UNCHANGED <<topic, foreign, nextId, seen, lock, hub, bridgeVars, sess,
                   inst, conn, cur, sendVars, histVars>>

\* Mutant of MarkSeen: the insert does not take the Ledger lock.
MarkSeenUnlocked(s) ==
    /\ rpc[s] = "mark"
    /\ seen' = [seen EXCEPT ![inst[s]] = @ \cup {cur[s].id}]
    /\ rpc' = [rpc EXCEPT ![s] = "publish"]
    /\ UNCHANGED <<topic, foreign, nextId, lock, hub, bridgeVars, sess, inst,
                   conn, cur, sendVars, histVars>>

\* Line 158: seen.lock().unwrap().insert(id).
MarkSeen(s) ==
    /\ rpc[s] = "mark"
    /\ lock[inst[s]] = "free"
    /\ seen' = [seen EXCEPT ![inst[s]] = @ \cup {cur[s].id}]
    /\ rpc' = [rpc EXCEPT ![s] = "publish"]
    /\ UNCHANGED <<topic, foreign, nextId, lock, hub, bridgeVars, sess, inst,
                   conn, cur, sendVars, histVars>>

\* Lines 161-166: producer.send(...).await; the outcome is ignored.
Publish(s, ok) ==
    /\ rpc[s] = "publish"
    /\ topic' = IF ok THEN Append(topic, cur[s].payload) ELSE topic
    /\ rpc' = [rpc EXCEPT ![s] = "broadcast"]
    /\ UNCHANGED <<foreign, nextId, seen, lock, hub, bridgeVars, sess, inst,
                   conn, cur, sendVars, histVars>>

\* Mutant of Broadcast: the local echo is skipped when the publish failed.
BroadcastIfPublished(s) ==
    /\ rpc[s] = "broadcast"
    /\ hub' = [hub EXCEPT ![inst[s]] =
                 IF \E k \in 1..Len(topic) : topic[k] = cur[s].payload
                 THEN Append(@, cur[s].payload) ELSE @]
    /\ rpc' = [rpc EXCEPT ![s] = "recv"]
    /\ cur' = [cur EXCEPT ![s] = NoCur]
    /\ UNCHANGED <<topic, foreign, nextId, seen, lock, bridgeVars, sess, inst,
                   conn, sendVars, histVars>>

\* Mutant of Broadcast: the Hub send does not wait for the publish.
BroadcastEarly(s) ==
    /\ rpc[s] \in {"publish", "broadcast"}
    /\ hub' = [hub EXCEPT ![inst[s]] = Append(@, cur[s].payload)]
    /\ rpc' = [rpc EXCEPT ![s] = "recv"]
    /\ cur' = [cur EXCEPT ![s] = NoCur]
    /\ UNCHANGED <<topic, foreign, nextId, seen, lock, bridgeVars, sess, inst,
                   conn, sendVars, histVars>>

\* Line 169: tx.send(payload).
Broadcast(s) ==
    /\ rpc[s] = "broadcast"
    /\ hub' = [hub EXCEPT ![inst[s]] = Append(@, cur[s].payload)]
    /\ rpc' = [rpc EXCEPT ![s] = "recv"]
    /\ cur' = [cur EXCEPT ![s] = NoCur]
    /\ UNCHANGED <<topic, foreign, nextId, seen, lock, bridgeVars, sess, inst,
                   conn, sendVars, histVars>>

\* Line 140: rx.recv().await.  A receiver more than the capacity behind gets
\* Err(Lagged), which ends the while-let loop.
HubRecv(s) ==
    /\ spc[s] = "recv"
    /\ next[s] < Len(hub[inst[s]])
    /\ IF Len(hub[inst[s]]) - next[s] > HubCapacity
       THEN /\ spc' = [spc EXCEPT ![s] = "done"]
            /\ UNCHANGED <<smsg, next>>
       ELSE /\ smsg' = [smsg EXCEPT ![s] = hub[inst[s]][next[s] + 1]]
            /\ next' = [next EXCEPT ![s] = @ + 1]
            /\ spc' = [spc EXCEPT ![s] = "write"]
    /\ UNCHANGED <<topic, foreign, nextId, seen, lock, hub, bridgeVars, sess,
                   inst, conn, rpc, cur, sub, out, histVars>>

\* Mutant of Write: the text is fed to the sink but never flushed, so it
\* does not reach the client.
WriteNoFlush(s) ==
    /\ spc[s] = "write"
    /\ spc' = [spc EXCEPT ![s] = IF conn[s] THEN "recv" ELSE "done"]
    /\ smsg' = [smsg EXCEPT ![s] = NoText]
    /\ UNCHANGED <<topic, foreign, nextId, seen, lock, hub, bridgeVars, sess,
                   inst, conn, rpc, cur, sub, next, out, histVars>>

\* Mutant of Write: a failed write ends the send tasks of all sessions.
WriteFailEndsAll(s) ==
    /\ spc[s] = "write"
    /\ IF conn[s]
       THEN /\ out' = [out EXCEPT ![s] = Append(@, smsg[s])]
            /\ spc' = [spc EXCEPT ![s] = "recv"]
       ELSE /\ spc' = [t \in Sessions |-> IF spc[t] = "none" THEN "none" ELSE "done"]
            /\ UNCHANGED out
    /\ smsg' = [smsg EXCEPT ![s] = NoText]
    /\ UNCHANGED <<topic, foreign, nextId, seen, lock, hub, bridgeVars, sess,
                   inst, conn, rpc, cur, sub, next, histVars>>

\* Lines 141-143: sender.send(Message::Text(msg)).await.
Write(s) ==
    /\ spc[s] = "write"
    /\ IF conn[s]
       THEN /\ out' = [out EXCEPT ![s] = Append(@, smsg[s])]
            /\ spc' = [spc EXCEPT ![s] = "recv"]
       ELSE /\ spc' = [spc EXCEPT ![s] = "done"]
            /\ UNCHANGED out
    /\ smsg' = [smsg EXCEPT ![s] = NoText]
    /\ UNCHANGED <<topic, foreign, nextId, seen, lock, hub, bridgeVars, sess,
                   inst, conn, rpc, cur, sub, next, histVars>>

RecvOver(s) == rpc[s] \in {"done", "panicked"}
SendOver(s) == spc[s] = "done"

\* Lines 174-178: select! returns as soon as either JoinHandle completes and
\* handle_socket returns.  Dropping the other JoinHandle detaches its task;
\* nothing aborts it.
Closed(s) == RecvOver(s) \/ SendOver(s)

Next ==
    \/ \E i \in Local : \E k \in 1..Len(topic) : BridgeRecv(i, k)
    \/ \E i \in Local : BridgeCheck(i)
    \/ \E i \in Local : BridgeSend(i)
    \/ \E t \in ForeignTexts : ForeignPublish(t)
    \/ \E s \in Sessions : \E i \in Local : Connect(s, i)
    \/ \E s \in Sessions : Disconnect(s)
    \/ \E s \in Sessions : RecvEnd(s)
    \/ \E s \in Sessions : \E f \in Frames : \E now \in Times : RecvFrame(s, f, now)
    \/ \E s \in Sessions : MarkSeen(s)
    \/ \E s \in Sessions : \E ok \in BOOLEAN : Publish(s, ok)
    \/ \E s \in Sessions : Broadcast(s)
    \/ \E s \in Sessions : HubRecv(s)
    \/ \E s \in Sessions : Write(s)

Spec == Init /\ [][Next]_vars

\* Two relay instances sharing the topic, one client connected to each:
\* the state after Connect(1, 1) and Connect(2, 2).  Both clients stay
\* connected.
Init2 ==
    /\ topic = <<>>
    /\ foreign = 0
    /\ nextId = 0
    /\ seen = [i \in Instances |-> {}]
    /\ lock = [i \in Instances |-> "free"]
    /\ hub = [i \in Instances |-> <<>>]
    /\ bpc = [i \in Instances |-> "recv"]
    /\ brec = [i \in Instances |-> NoText]
    /\ cursor = [i \in Instances |-> 0]
    /\ sess = [s \in Sessions |-> "open"]
    /\ inst = [s \in Sessions |-> s]
    /\ conn = [s \in Sessions |-> TRUE]
    /\ rpc = [s \in Sessions |-> "recv"]
    /\ cur = [s \in Sessions |-> NoCur]
    /\ spc = [s \in Sessions |-> "recv"]
    /\ smsg = [s \in Sessions |-> NoText]
    /\ sub = [s \in Sessions |-> 0]
    /\ next = [s \in Sessions |-> 0]
    /\ out = [s \in Sessions |-> <<>>]
    /\ orig = <<>>
    /\ errs = 0

Next2 ==
    \/ \E i \in Instances : \E k \in 1..Len(topic) : BridgeRecv(i, k)
    \/ \E i \in Instances : BridgeCheck(i)
    \/ \E i \in Instances : BridgeSend(i)
    \/ \E s \in Sessions : \E f \in Frames : \E now \in Times : RecvFrame(s, f, now)
    \/ \E s \in Sessions : MarkSeen(s)
    \/ \E s \in Sessions : \E ok \in BOOLEAN : Publish(s, ok)
    \/ \E s \in Sessions : Broadcast(s)
    \/ \E s \in Sessions : HubRecv(s)
    \/ \E s \in Sessions : Write(s)

Spec2 == Init2 /\ [][Next2]_vars

\* One instance whose consumer stream also yields receive errors.
NextE ==
    \/ Next
    \/ \E i \in Local : BridgeError(i)

SpecE == Init /\ [][NextE]_vars

\* The send tasks are spawned tokio tasks: the runtime keeps polling them,
\* whatever happens to their sibling.
FairSpec ==
    /\ Init
    /\ [][Next]_vars
    /\ \A s \in Sessions : WF_vars(HubRecv(s)) /\ WF_vars(Write(s))

\* The consumer task and every recv_task are spawned tokio tasks.  A task
\* that asks for the Ledger mutex blocks its thread until the mutex is free
\* and then goes on; the Bridge's Hub send never waits.
FairLock ==
    /\ Init
    /\ [][Next]_vars
    /\ \A i \in Local : WF_vars(BridgeCheck(i)) /\ WF_vars(BridgeSend(i))
    /\ \A s \in Sessions : WF_vars(MarkSeen(s))

\* ------------------------------------------------------- derived notions
Minted == 1..nextId

\* Number of texts of seq that carry id.
CountId(seq, id) == Cardinality({n \in 1..Len(seq) : IdOf(seq[n]) = id})

\* The recv_task that accepted id has not yet finished its iteration.
InFlight(id) == \E s \in Sessions : cur[s].id = id

\* Times id was handed to the send_task of s: written, or about to be.
Handed(s, id) == CountId(out[s], id) + (IF IdOf(smsg[s]) = id THEN 1 ELSE 0)

\* The receiver of s has fallen more than the capacity behind.
Lagging(s) == Len(hub[inst[s]]) - next[s] > HubCapacity

\* ------------------------------------------------------------------ C1
\* C1: a message accepted from a client is sent on the local Hub at most
\* once at any time and exactly once when the inbound flow has finished
\* the frame, whatever the Bridge reads back in between, and every outbound
\* flow (the originator's too) is handed it at most once.
C1_NoSelfLoopDuplication ==
    \A m \in Minted :
        /\ \A i \in Local : /\ CountId(hub[i], m) <= 1
                            /\ ~InFlight(m) => CountId(hub[i], m) = 1
        /\ \A s \in Sessions : Handed(s, m) <= 1

\* The Bridge has read the record back and dropped it, and every client,
\* the originator included, got the message once.
C1_Witness ==
    \E m \in Minted :
        /\ \A s \in Sessions : CountId(out[s], m) = 1
        /\ \A i \in Local : /\ \E k \in 1..cursor[i] : IdOf(topic[k]) = m
                            /\ bpc[i] = "recv"

\* ------------------------------------------------------------------ C3
\* C3: the Bridge moves to its Hub send only for a record whose id is not
\* in the Ledger, inserting the id in that same step; a record whose id is
\* in the Ledger leaves Hub and Ledger alone; and no id is sent on a Hub
\* by the Bridge when the Hub already carries it.
C3_BridgeForwardsOnlyUnseen ==
    [][\A i \in Instances :
          /\ (bpc[i] = "lock" /\ bpc'[i] = "send") =>
                 /\ IdOf(brec[i]) \notin seen[i]
                 /\ IdOf(brec[i]) \in seen'[i]
          /\ (bpc[i] = "lock" /\ bpc'[i] # "lock" /\ IdOf(brec[i]) \in seen[i]) =>
                 /\ bpc'[i] = "recv"
                 /\ hub'[i] = hub[i]
                 /\ seen'[i] = seen[i]
          /\ (bpc[i] = "send" /\ bpc'[i] # "send") =>
                 /\ CountId(hub[i], IdOf(brec[i])) = 0
                 /\ CountId(hub'[i], IdOf(brec[i])) = 1]_vars

\* The Bridge holds a redelivered record whose id the Hub already carries.
C3_Witness ==
    \E i \in Instances :
        /\ bpc[i] = "lock"
        /\ IdOf(brec[i]) \in seen[i]
        /\ CountId(hub[i], IdOf(brec[i])) = 1

\* ------------------------------------------------------------------ C4
\* Text t is value P with exactly id and timestamp set to relay values.
EnrichedFrom(P, t, id) ==
    LET Q == from_str(t)
    IN /\ Parses(t) /\ Q.kind = "obj"
       /\ DOMAIN Q.map = DOMAIN P.map \cup {"id", "timestamp"}
       /\ Q.map["id"] = id
       /\ Q.map["timestamp"] \in Times
       /\ \A k \in DOMAIN P.map \ {"id", "timestamp"} : Q.map[k] = P.map[k]

CarriersOf(id) ==
    {topic[n] : n \in {k \in 1..Len(topic) : IdOf(topic[k]) = id}}
    \cup UNION {{hub[i][n] : n \in {k \in 1..Len(hub[i]) : IdOf(hub[i][k]) = id}}
                : i \in Instances}
    \cup {cur[s].payload : s \in {r \in Sessions : cur[r].id = id}}

C5_MalformedIsolated ==
    /\ \A s \in Sessions : rpc[s] # "panicked"
    /\ \A m \in Minted :
           orig[m].kind # "obj" =>
               /\ CountId(topic, m) = 0
               /\ \A i \in Instances : /\ m \notin seen[i]
                                       /\ CountId(hub[i], m) = 0

\* ------------------------------------------------------------------ C6
\* C6: once one flow of a Session is over, the sibling takes no further
\* step: the send task receives nothing more from the Hub and writes
\* nothing more, the recv task accepts, marks, publishes and broadcasts
\* nothing more.
C6_PairedCancellation ==
    [][\A s \in Sessions :
          /\ RecvOver(s) => /\ out'[s] = out[s]
                            /\ next'[s] = next[s]
                            /\ smsg'[s] = smsg[s]
          /\ SendOver(s) => /\ cur'[s] = cur[s]
                            /\ rpc'[s] \in {rpc[s], "done", "panicked"}]_vars

\* ------------------------------------------------------------------ C8
SessionState(t) ==
    <<sess[t], inst[t], conn[t], rpc[t], cur[t], spc[t], smsg[t], sub[t],
      next[t], out[t]>>

\* C8: a step in which a Session loses its transport or one of its flows
\* ends changes nothing but that Session: every other Session, the Bridge,
\* the Ledger, the Hub and the topic are as before.
C8_SessionIsolation ==
    [][\A s \in Sessions :
          ( \/ conn[s] /\ ~conn'[s]
            \/ ~RecvOver(s) /\ rpc'[s] \in {"done", "panicked"}
            \/ ~SendOver(s) /\ spc'[s] = "done" )
          => /\ \A t \in Sessions \ {s} : SessionState(t)' = SessionState(t)
             /\ UNCHANGED <<topic, seen, lock, hub, bridgeVars>>]_vars

\* One Session is gone for good; the other has got its own message and
\* both its flows are still running.
C8_Witness ==
    \E s \in Sessions, t \in Sessions :
        /\ s # t
        /\ ~conn[s] /\ RecvOver(s) /\ SendOver(s)
        /\ conn[t] /\ rpc[t] = "recv" /\ spc[t] = "recv"
        /\ \E m \in Minted : CountId(out[t], m) = 1

\* ------------------------------------------------------------------ C9
\* C9: every text sent on a Hub has an id member and a timestamp member.
C9_HubPayloadsComplete ==
    \A i \in Instances : \A n \in 1..Len(hub[i]) :
        /\ Parses(hub[i][n])
        /\ {"id", "timestamp"} \subseteq Keys(hub[i][n].pairs)

\* ----------------------------------------------------------------- C10
\* Position of id in the Hub of instance i, 0 when absent.
HubPos(i, id) ==
    LET at == {n \in 1..Len(hub[i]) : IdOf(hub[i][n]) = id}
    IN IF at = {} THEN 0 ELSE CHOOSE n \in at : TRUE

\* C10: once the inbound flow has finished an accepted frame the payload is
\* on the local Hub, whether or not the topic got a record of it, and every
\* co-located send task that has taken that Hub position has been handed
\* the payload (or has ended on a failed write).
C10_LocalEchoRegardless ==
    \A m \in Minted :
        ~InFlight(m) =>
            \A i \in Local :
                /\ HubPos(i, m) > 0
                /\ \A s \in Sessions :
                       (inst[s] = i /\ spc[s] # "none"
                        /\ sub[s] < HubPos(i, m) /\ HubPos(i, m) <= next[s])
                       => \/ Handed(s, m) = 1
                          \/ SendOver(s) /\ ~conn[s]

\* The publish failed: no record in the topic, yet the originating client
\* and a co-located one have the message.
C10_Witness ==
    \E m \in Minted :
        /\ ~InFlight(m)
        /\ CountId(topic, m) = 0
        /\ \A s \in Sessions : CountId(out[s], m) = 1

\* ------------------------------------------------------------------ C2
\* Nothing is in progress: every accepted frame has been handled, the
\* Bridges have consumed the whole topic, the send tasks have caught up.
Quiescent ==
    /\ \A s \in Sessions : /\ rpc[s] \in {"recv", "done", "panicked"}
                           /\ \/ spc[s] = "done"
                              \/ spc[s] = "recv" /\ next[s] = Len(hub[inst[s]])
    /\ \A i \in Instances : bpc[i] = "recv" /\ cursor[i] = Len(topic)

\* C2 as stated: every accepted message is recorded in the topic and every
\* client that is still connected, on either instance, has got it exactly
\* once.
C2_ExactlyOncePerRecipient ==
    Quiescent =>
        \A m \in Minted :
            /\ CountId(topic, m) >= 1
            /\ \A s \in Sessions : conn[s] => CountId(out[s], m) = 1

\* C2 amended: an accepted message is sent at most once on each instance's
\* Hub and handed at most once to each client; it is on the Hubs of both
\* instances only if the topic records it.  When nothing is in progress
\* it is on the Hub of at least one instance (the accepting one) and, if
\* the topic records it, of both, and every client that is still connected
\* and kept pace has got exactly what its own instance's Hub carries.
C2_AtMostOnceAndOnceIfPublished ==
    \A m \in Minted :
        /\ CountId(topic, m) <= 1
        /\ \A i \in Instances : CountId(hub[i], m) <= 1
        /\ \A s \in Sessions : Handed(s, m) <= 1
        /\ (\A i \in Instances : CountId(hub[i], m) = 1) => CountId(topic, m) = 1
        /\ Quiescent =>
               /\ \E i \in Instances : CountId(hub[i], m) = 1
               /\ CountId(topic, m) = 1 => \A i \in Instances : CountId(hub[i], m) = 1
               /\ \A s \in Sessions :
                      (conn[s] /\ ~Lagging(s)) =>
                          CountId(out[s], m) = CountId(hub[inst[s]], m)

\* A published message has reached the clients of both instances, once each.
C2_Witness ==
    /\ Quiescent
    /\ \E m \in Minted :
           /\ CountId(topic, m) = 1
           /\ \A s \in Sessions : conn[s] /\ CountId(out[s], m) = 1

\* ------------------------------------------------------------------ C7
MaxHub == MaxMsgs + MaxForeign

\* Text n of the Hub was sent while s was subscribed.
SentWhileSubscribed(s, n) ==
    spc[s] # "none" /\ sub[s] < n /\ n <= Len(hub[inst[s]])

\* Text n of the Hub has been written to the client of s.
Written(s, n) ==
    /\ SentWhileSubscribed(s, n)
    /\ Len(out[s]) >= n - sub[s]
    /\ out[s][n - sub[s]] = hub[inst[s]][n]

\* C7: every text sent on the Hub while s is subscribed is eventually
\* written to the client of s, unless the client goes away or s falls more
\* than the capacity behind.
C7_FanOutComplete ==
    \A s \in Sessions : \A n \in 1..MaxHub :
        SentWhileSubscribed(s, n) ~> (Written(s, n) \/ ~conn[s] \/ Lagging(s))

\* Both sessions have been written a text that was sent while both were
\* subscribed.
C7_Witness ==
    \E n \in 1..MaxHub : \A s \in Sessions : conn[s] /\ Written(s, n)

\* ------------------------------------------------------------------ C11
\* C11: the outbound flow ends only on a failed write to the client (the
\* subscription itself never closes, the relay keeps a sender): a send_task
\* that is over has a client whose transport is down, so a receiver that
\* fell behind the capacity is still running.
C11_OutboundEndsOnlyOnWriteFailure ==
    \A s \in Sessions : SendOver(s) => ~conn[s]

\* ------------------------------------------------------------------ C12
\* C12: no replay on subscribe.  The receiver of s never stands before the
\* point of subscription, and the n-th text written to the client of s (or
\* held for writing) is the n-th text sent on the Hub after s subscribed.
C12_NoReplayOnSubscribe ==
    \A s \in Sessions :
        spc[s] # "none" =>
            /\ sub[s] <= next[s]
            /\ next[s] <= Len(hub[inst[s]])
            /\ \A n \in 1..Len(out[s]) :
                   /\ sub[s] + n <= next[s]
                   /\ out[s][n] = hub[inst[s]][sub[s] + n]
            /\ smsg[s] # NoText => /\ sub[s] < next[s]
                                   /\ smsg[s] = hub[inst[s]][next[s]]

\* A session that subscribed to a Hub with a backlog has written a text to
\* its client.
C12_Witness ==
    \E s \in Sessions : sub[s] > 0 /\ Len(out[s]) > 0

\* ------------------------------------------------------------------ C13
\* Where the recv_task of s stands with the frame it accepted.
C13_Stage(s) ==
    LET id == cur[s].id
        i == inst[s]
    IN  /\ rpc[s] = "mark" =>
            CountId(topic, id) = 0 /\ CountId(hub[i], id) = 0
        /\ rpc[s] = "publish" =>
            id \in seen[i] /\ CountId(topic, id) = 0 /\ CountId(hub[i], id) = 0
        /\ rpc[s] = "broadcast" =>
            id \in seen[i] /\ CountId(hub[i], id) = 0

\* C13: for every accepted frame the id is in the Ledger before the publish
\* starts and the publish is over before the Hub send: while the id is not
\* marked it is neither on the topic nor on the Hub, while the publish is
\* pending it is marked and not on the Hub, the record reaches the topic
\* only in the publish step and the payload reaches the Hub only in the
\* step after it.
C13_MarkPublishBroadcastInOrder ==
    /\ [](\A s \in Sessions : cur[s] # NoCur => C13_Stage(s))
    /\ [][\A s \in Sessions :
            cur[s] # NoCur =>
                /\ rpc'[s] # rpc[s] =>
                       <<rpc[s], rpc'[s]>> \in {<<"mark", "publish">>,
                                                <<"publish", "broadcast">>,
                                                <<"broadcast", "recv">>}
                /\ CountId(topic', cur[s].id) # CountId(topic, cur[s].id) =>
                       /\ rpc[s] = "publish" /\ rpc'[s] = "broadcast"
                       /\ cur[s].id \in seen[inst[s]]
                /\ CountId(hub'[inst[s]], cur[s].id)
                       # CountId(hub[inst[s]], cur[s].id) =>
                       /\ rpc[s] = "broadcast" /\ rpc'[s] = "recv"
                       /\ cur[s].id \in seen[inst[s]]]_vars

\* The publish of an accepted frame has succeeded, the Bridge has read the
\* record back, and the Hub send is still to come.
C13_Witness ==
    \E s \in Sessions :
        /\ rpc[s] = "broadcast"
        /\ cur[s].id \in seen[inst[s]]
        /\ CountId(topic, cur[s].id) = 1
        /\ CountId(hub[inst[s]], cur[s].id) = 0
        /\ cursor[inst[s]] = Len(topic)

\* ------------------------------------------------------------------ C14
\* C14: the Ledger's test-then-insert is atomic.  The Bridge tests and
\* inserts the id of its record in the step that takes the lock; while the
\* lock is held no task changes the Ledger; every change of the Ledger
\* starts from a free lock and adds one id; and no id is forwarded twice by
\* callers that both found it absent.
C14_CheckThenInsertAtomic ==
    /\ [](\A i \in Instances : \A id \in seen[i] : CountId(hub[i], id) <= 1)
    /\ [][\A i \in Instances :
            /\ lock[i] = "bridge" => seen'[i] = seen[i]
            /\ (lock[i] = "free" /\ lock'[i] = "bridge") =>
                   /\ IdOf(brec[i]) \notin seen[i]
                   /\ seen'[i] = seen[i] \cup {IdOf(brec[i])}
            /\ seen'[i] # seen[i] =>
                   /\ lock[i] = "free"
                   /\ seen[i] \subseteq seen'[i]
                   /\ Cardinality(seen'[i] \ seen[i]) = 1]_vars

\* The Bridge holds the lock between its insert and its Hub send while a
\* recv_task of the same instance waits to insert its id.
C14_Witness ==
    \E s \in Sessions :
        /\ rpc[s] = "mark"
        /\ lock[inst[s]] = "bridge"
        /\ IdOf(brec[inst[s]]) \in seen[inst[s]]

\* ------------------------------------------------------------------ C15
\* C15: Bridge drop rule.  A receive error, a record that does not decode
\* and a record without a string id leave the Ledger, the Hub and the lock
\* as they are and the Bridge at the head of its loop; only a record with a
\* string id moves the Bridge on; and the loop never ends.
C15_BridgeDropRule ==
    /\ [](\A i \in Instances : bpc[i] \in {"recv", "lock", "send"})
    /\ [][\A i \in Instances :
            /\ errs' # errs =>
                   UNCHANGED <<seen, hub, lock, bpc, brec, cursor>>
            /\ (bpc[i] = "recv" /\ cursor'[i] # cursor[i]) =>
                   IF IdOf(topic'[cursor'[i]]) = 0
                   THEN /\ UNCHANGED <<seen, hub, lock>>
                        /\ bpc'[i] = "recv"
                        /\ brec'[i] = brec[i]
                   ELSE /\ bpc'[i] = "lock"
                        /\ brec'[i] = topic'[cursor'[i]]
            /\ (bpc[i] = "recv" /\ bpc'[i] # "recv") =>
                   /\ bpc'[i] = "lock"
                   /\ IdOf(brec'[i]) # 0]_vars

\* The stream has yielded an error and a record without a string id, and
\* the Bridge is processing the record that followed them.
C15_Witness ==
    \E i \in Local :
        /\ errs > 0
        /\ cursor[i] = 2
        /\ IdOf(topic[1]) = 0
        /\ bpc[i] = "lock"
        /\ brec[i] = topic[2]
        /\ seen[i] # {}
        /\ hub[i] = <<>>

\* ------------------------------------------------------------------ C16
\* Records of the topic that carry an id minted by a relay.
C16_RelayRecords(tp, n) == {k \in 1..Len(tp) : IdOf(tp[k]) \in 1..n}

\* C16: no relay loop through the broker.  The topic grows only by a record
\* of another producer or by the publish step of a recv_task, which appends
\* the payload of the frame it accepted; steps of the Bridge and of the
\* send tasks leave the topic alone; every minted id is on the topic at
\* most once, so the records the relay published are no more than the
\* frames it accepted and none is a record it read.
C16_NoRelayLoop ==
    [][/\ topic' # topic =>
              /\ Len(topic') = Len(topic) + 1
              /\ SubSeq(topic', 1, Len(topic)) = topic
              /\ \/ foreign' = foreign + 1
                 \/ /\ foreign' = foreign
                    /\ \E s \in Sessions :
                           /\ rpc[s] = "publish" /\ rpc'[s] = "broadcast"
                           /\ topic'[Len(topic')] = cur[s].payload
       /\ (<<bpc, brec, cursor>>' # <<bpc, brec, cursor>>
              \/ <<spc, smsg, next, out>>' # <<spc, smsg, next, out>>) =>
              topic' = topic
       /\ \A m \in 1..nextId' : CountId(topic', m) <= 1
       /\ Cardinality(C16_RelayRecords(topic', nextId')) = Len(topic') - foreign'
       /\ Len(topic') - foreign' <= nextId']_vars

\* The Bridge has read the whole topic, a record of another producer and a
\* record the relay published, and has forwarded the former to the Hub.
C16_Witness ==
    \E i \in Local : \E k \in 1..Len(topic) :
        /\ Len(topic) = 2
        /\ foreign = 1
        /\ nextId = 1
        /\ CountId(topic, 1) = 1
        /\ IdOf(topic[k]) > 1
        /\ CountId(hub[i], IdOf(topic[k])) = 1
        /\ cursor[i] = 2
        /\ bpc[i] = "recv"

\* ------------------------------------------------------------------ C17
\* C17: the inbound flow ends only on a client disconnect or a read error:
\* a recv_task that is over has a client whose transport is down, whatever
\* frames the client sent while it was connected.
C17_InboundEndsOnlyOnDisconnect ==
    \A s \in Sessions : RecvOver(s) => ~conn[s]

\* ------------------------------------------------------------------ C18
\* Ids of the texts sent on the Hub of instance i.
C18_HubIds(h) == {IdOf(h[n]) : n \in 1..Len(h)}

\* C18: every text on the Hub carries a string id of the Ledger; a Hub send
\* appends one text whose id was in the Ledger before the step; and the
\* Ledger only grows.
C18_BroadcastIdsInLedger ==
    /\ [](\A i \in Instances :
            0 \notin C18_HubIds(hub[i]) /\ C18_HubIds(hub[i]) \subseteq seen[i])
    /\ [][\A i \in Instances :
            /\ seen[i] \subseteq seen'[i]
            /\ hub'[i] # hub[i] =>
                   /\ Len(hub'[i]) = Len(hub[i]) + 1
                   /\ SubSeq(hub'[i], 1, Len(hub[i])) = hub[i]
                   /\ IdOf(hub'[i][Len(hub'[i])]) \in seen[i]]_vars

\* The Hub carries a text sent by a recv_task and a text forwarded by the
\* Bridge, and both ids are in the Ledger.
C18_Witness ==
    \E i \in Local :
        /\ Len(hub[i]) = 2
        /\ 1 \in C18_HubIds(hub[i])
        /\ \E id \in C18_HubIds(hub[i]) : id > 1
        /\ C18_HubIds(hub[i]) \subseteq seen[i]

\* ------------------------------------------------------------------ C19
\* C19: the Ledger lock is never held across a suspension point.  The
\* Bridge holds it only while it stands before its Hub send, never while it
\* awaits a record; a recv_task takes and releases it within its insert and
\* awaits the publish with the lock free of it; every held lock is
\* released and every task that asks for the lock gets it.
C19_LockNotHeldAcrossAwait ==
    /\ [](\A i \in Instances : lock[i] = "bridge" <=> bpc[i] = "send")
    /\ [][\A s \in Sessions :
            rpc'[s] # rpc[s] /\ rpc[s] = "mark" =>
                /\ rpc'[s] = "publish"
                /\ lock[inst[s]] = "free"
                /\ lock'[inst[s]] = "free"]_vars
    /\ \A i \in Local : lock[i] = "bridge" ~> lock[i] = "free"
    /\ \A i \in Local : bpc[i] = "lock" ~> bpc[i] # "lock"
    /\ \A s \in Sessions : rpc[s] = "mark" ~> rpc[s] = "publish"

\* A recv_task has inserted its id and awaits its publish while the Bridge
\* holds the lock.
C19_Witness ==
    \E s \in Sessions :
        /\ rpc[s] = "publish"
        /\ lock[inst[s]] = "bridge"
        /\ cur[s].id \in seen[inst[s]]

====
